---- MODULE Spec2Model ----
\* A model of the panel-stack controller of source/UI.cpp: the stack of panels,
\* the pending-push and pending-pop queues, the touch bookkeeping, and the
\* operations Handle, StepAll, DrawAll, Push, Pop, PopThrough, Reset and Quit.
EXTENDS Integers, Sequences, FiniteSets, TLC

VARIABLES
    stack,          \* vector<shared_ptr<Panel>> stack, bottom first
    toPush,         \* vector<shared_ptr<Panel>> toPush, in request order
    toPop,          \* vector<const Panel *> toPop, in request order
    isDone,         \* bool isDone
    zoneFingerId,   \* finger whose touch-down was claimed by a zone, or -1
    panelFingerId,  \* finger whose touch-down was taken as a Click, or -1
    lastTap,        \* uint32_t tick of the last fallback Click attempt
    pc,             \* "idle", or the position inside Handle: "walk", "apply"
    it,             \* the iterator of Handle's walk: number of entries below it
    event,          \* the SDL_Event of the Handle call in progress
    handled,        \* Handle's local `handled`; after the return, its result
    calls,          \* the calls the operation in progress (or just ended) made on
                    \* panels and collaborators, in order
    visited         \* the loop iterations of the walk in progress, in order

queues == <<stack, toPush, toPop>>
touch == <<zoneFingerId, panelFingerId, lastTap>>
walk == <<pc, it, event, handled, visited>>
vars == <<stack, toPush, toPop, isDone, zoneFingerId, panelFingerId, lastTap,
          pc, it, event, handled, calls, visited>>

-----------------------------------------------------------------------------
\* Bounds of the model.

\* Largest number of panels held by the stack and the pending-push queue.
MaxStack == 3
\* Largest length of the pending-pop queue.
MaxPop == 2
\* Largest number of requests the panels issue during one Handle call.
MaxReq == 1
\* Largest number of requests during one Handle call of the specification of
\* batches of requests.
MaxBatch == 2

\* Panel identities (the raw pointers). Null is the empty shared_ptr.
Panels == {1, 2, 3}
Null == 0
\* Touch identifiers of the platform.
Fingers == {0, 1}
\* Values SDL_GetTicks() is observed to return (it wraps at 2^32). A uint32_t
\* is the pair <<high half, low half>> of its 16-bit halves.
TickValues == {<<0, 499>>, <<0, 500>>, <<65535, 65535>>}

-----------------------------------------------------------------------------
\* Program constants.

\* "no finger": zoneFingerId = -1, panelFingerId = -1.
NoFinger == -1
\* The double-tap window in milliseconds.
TapWindow == 500
\* uint32_t arithmetic is modulo 2^32 = Half * Half.
Half == 65536

\* Panel::TrapAllEvents() and Panel::IsFullScreen() of the panels of the model:
\* panel 1 is a plain overlay, panel 2 traps events, panel 3 is full-screen.
TrapAllEvents(p) == p \in {2}
IsFullScreen(p) == p \in {3}

-----------------------------------------------------------------------------
\* Sequence helpers (std::count, vector::erase).

Range(s) == {s[i] : i \in 1..Len(s)}
Count(s, x) == Cardinality({i \in 1..Len(s) : s[i] = x})
RemoveAt(s, i) == SubSeq(s, 1, i - 1) \o SubSeq(s, i + 1, Len(s))
Reverse(s) == [i \in 1..Len(s) |-> s[Len(s) + 1 - i]]

\* a - b in uint32_t arithmetic.
Sub32(a, b) ==
    LET lo == a[2] - b[2]
        borrow == IF lo < 0 THEN 1 ELSE 0
    IN  <<(a[1] - b[1] - borrow) % Half, lo % Half>>
\* a > n for a uint32_t a and a number n below Half.
Gt32(a, n) == a[1] > 0 \/ a[2] > n

\* One record of the call log: callback cb(arg) made on the panel at stack index
\* idx (0: no stack entry). ticks is <<now, lastTap>> as read by the touch-down
\* fallback, <<>> elsewhere.
Call(i, p, cb, arg) ==
    [idx |-> i, panel |-> p, cb |-> cb, arg |-> arg, ticks |-> <<>>]

-----------------------------------------------------------------------------
\* The mutation requests, as functions of the controller's members. q is a
\* record [stack, toPush, toPop, isDone, calls].

\* Push as it would be without the SetUI call.
PushUnwired(q, i, panel) == [q EXCEPT !.toPush = Append(@, panel)]

\* UI::Push: wire the panel to this controller, then enqueue it.
Push(q, i, panel) ==
    [q EXCEPT !.calls = Append(@, Call(i, panel, "SetUI", <<>>)),
              !.toPush = Append(@, panel)]

\* Pop as it would be if it erased the panel from the stack at once.
PopAtOnce(q, panel) == [q EXCEPT !.stack = SelectSeq(@, LAMBDA x : x # panel)]

\* UI::Pop: enqueue the identity.
Pop(q, panel) == [q EXCEPT !.toPop = Append(@, panel)]

\* The entries PopThrough enqueues: from the top down, stopping after the first
\* entry equal to panel; the whole stack when there is none.
ThroughList(s, panel) ==
    LET hits == {i \in 1..Len(s) : s[i] = panel}
        low == IF hits = {} THEN 1 ELSE CHOOSE i \in hits : \A j \in hits : j <= i
    IN  Reverse(SubSeq(s, low, Len(s)))

\* UI::PopThrough.
PopThrough(q, panel) == [q EXCEPT !.toPop = @ \o ThroughList(q.stack, panel)]

\* The erase loop as it would be if a failed search erased the top entry.
EraseFirstOrTop(s, panel) ==
    LET hits == {i \in 1..Len(s) : s[i] = panel}
    IN  IF s = <<>> THEN s
        ELSE IF hits = {} THEN RemoveAt(s, Len(s))
        ELSE RemoveAt(s, CHOOSE i \in hits : \A j \in hits : i <= j)

\* The erase loop of PushOrPop for one identity: the first match from
\* stack.begin() is erased; no match erases nothing.
EraseFirst(s, panel) ==
    LET hits == {i \in 1..Len(s) : s[i] = panel}
    IN  IF hits = {} THEN s
        ELSE RemoveAt(s, CHOOSE i \in hits : \A j \in hits : i <= j)

RECURSIVE EraseEach(_, _)
EraseEach(s, pops) ==
    IF pops = <<>> THEN s
    ELSE EraseEach(EraseFirst(s, Head(pops)), Tail(pops))

\* PushOrPop as it would be if it applied the pops before the pushes.
PopThenPush(s, pushes, pops) ==
    EraseEach(s, pops) \o SelectSeq(pushes, LAMBDA p : p # Null)

\* UI::PushOrPop: the stack after the apply step.
PushOrPop(s, pushes, pops) ==
    EraseEach(s \o SelectSeq(pushes, LAMBDA p : p # Null), pops)

-----------------------------------------------------------------------------
\* The queries.

\* IsTop as it would be if it looked at the pending pushes first, as Top does.
IsTopPending(panel) ==
    IF toPush # <<>> THEN toPush[Len(toPush)] = panel
    ELSE stack # <<>> /\ stack[Len(stack)] = panel

IsTop(panel) == stack # <<>> /\ stack[Len(stack)] = panel
Top == IF toPush # <<>> THEN toPush[Len(toPush)]
       ELSE IF stack # <<>> THEN stack[Len(stack)]
       ELSE Null
Root == IF stack = <<>>
        THEN (IF toPush = <<>> THEN Null ELSE toPush[1])
        ELSE stack[1]
IsDone == isDone
IsEmpty == stack = <<>> /\ toPush = <<>>

-----------------------------------------------------------------------------
\* The state after construction.

NoEvent == [type |-> "NONE", arg |-> 0, clicks |-> 0]

Init ==
    /\ stack = <<>>
    /\ toPush = <<>>
    /\ toPop = <<>>
    /\ isDone = FALSE
    /\ zoneFingerId = NoFinger
    /\ panelFingerId = NoFinger
    /\ lastTap = <<0, 0>>
    /\ pc = "idle"
    /\ it = 0
    /\ event = NoEvent
    /\ handled = FALSE
    /\ calls = <<>>
    /\ visited = <<>>

-----------------------------------------------------------------------------
\* Requests issued from outside a Handle call (by the host, or by a panel in
\* Step or Draw).

Fits(q) ==
    /\ Len(q.stack) + Len(q.toPush) <= MaxStack
    /\ Len(q.toPop) <= MaxPop

Queues(cs) ==
    [stack |-> stack, toPush |-> toPush, toPop |-> toPop, isDone |-> isDone,
     calls |-> cs]

\* UI::Push called from outside a Handle call. Push calls SetUI through the
\* handle without testing it: with an empty handle the call is undefined, and it
\* either faults (pc = "fault", the program is gone) or goes through.
HostPush(panel) ==
    /\ pc = "idle"
    /\ \/ /\ LET q == Push(Queues(<<>>), 0, panel) IN
              /\ Fits(q)
              /\ stack' = q.stack
              /\ toPush' = q.toPush
              /\ toPop' = q.toPop
              /\ calls' = q.calls
          /\ UNCHANGED <<isDone, touch, walk>>
       \/ /\ panel = Null
          /\ pc' = "fault"
          /\ calls' = <<Call(0, Null, "SetUI", <<>>)>>
          /\ UNCHANGED <<queues, isDone, touch, it, event, handled, visited>>

HostPop(panel) ==
    /\ pc = "idle"
    /\ LET q == Pop(Queues(<<>>), panel) IN
        /\ Fits(q)
        /\ stack' = q.stack
        /\ toPush' = q.toPush
        /\ toPop' = q.toPop
        /\ calls' = q.calls
    /\ UNCHANGED <<isDone, touch, walk>>

HostPopThrough(panel) ==
    /\ pc = "idle"
    /\ LET q == PopThrough(Queues(<<>>), panel) IN
        /\ Fits(q)
        /\ stack' = q.stack
        /\ toPush' = q.toPush
        /\ toPop' = q.toPop
        /\ calls' = q.calls
    /\ UNCHANGED <<isDone, touch, walk>>

\* UI::StepAll: apply the queued requests, then Step every panel, bottom first.
StepAll ==
    /\ pc = "idle"
    /\ stack' = PushOrPop(stack, toPush, toPop)
    /\ toPush' = <<>>
    /\ toPop' = <<>>
    /\ calls' = [i \in 1..Len(stack') |-> Call(i, stack'[i], "Step", <<>>)]
    /\ UNCHANGED <<isDone, touch, walk>>

\* DrawFrom as it would be if the scan for a full-screen panel ran bottom-up.
DrawFromLowest(s) ==
    LET full == {i \in 1..Len(s) : IsFullScreen(s[i])}
    IN  IF full = {} THEN 1 ELSE CHOOSE i \in full : \A j \in full : i <= j

\* The entry DrawAll starts drawing from: the topmost full-screen panel, the
\* bottom of the stack when there is none.
DrawFrom(s) ==
    LET full == {i \in 1..Len(s) : IsFullScreen(s[i])}
    IN  IF full = {} THEN 1 ELSE CHOOSE i \in full : \A j \in full : j <= i

\* UI::DrawAll: ClearZones on every panel, then Draw from DrawFrom to the top.
DrawAll ==
    /\ pc = "idle"
    /\ calls' = [i \in 1..Len(stack) |-> Call(i, stack[i], "ClearZones", <<>>)]
             \o [k \in 1..(Len(stack) + 1 - DrawFrom(stack)) |->
                    Call(DrawFrom(stack) + k - 1,
                         stack[DrawFrom(stack) + k - 1], "Draw", <<>>)]
    /\ UNCHANGED <<queues, isDone, touch, walk>>

\* UI::Reset.
Reset ==
    /\ pc = "idle"
    /\ stack' = <<>>
    /\ toPush' = <<>>
    /\ toPop' = <<>>
    /\ isDone' = FALSE
    /\ calls' = <<>>
    /\ UNCHANGED <<touch, walk>>

\* UI::Quit.
Quit ==
    /\ pc = "idle"
    /\ isDone' = TRUE
    /\ calls' = <<>>
    /\ UNCHANGED <<queues, touch, walk>>

-----------------------------------------------------------------------------
\* UI::Handle.

\* The events of the model. arg is the button state of a mouse motion (1: button
\* 1 held), the button of a mouse button event, the finger of a touch event, the
\* repeat flag of a key, the pressed state of an injected command, the kind of
\* a gesture; clicks is the platform's click count of a mouse button event.
Event(type, arg, clicks) == [type |-> type, arg |-> arg, clicks |-> clicks]

MouseEvents ==
    {Event("MOUSEMOTION", b, 0) : b \in {0, 1}}
        \cup {Event("MOUSEBUTTONDOWN", b, 1) : b \in {1, 2, 3}}
        \cup {Event("MOUSEBUTTONUP", 1, 1), Event("MOUSEWHEEL", 0, 0)}
KeyEvents ==
    {Event("KEYDOWN", 0, 0), Event("COMMAND", 0, 0), Event("COMMAND", 1, 0),
     Event("GESTURE", 0, 0), Event("OTHER", 0, 0)}
TouchEvents ==
    {Event(t, f, 0) : t \in {"FINGERDOWN", "FINGERMOTION", "FINGERUP"},
                      f \in Fingers}

\* What a panel answers during its turn: the results of the first, second and
\* third callback that returns a bool, and the tick SDL_GetTicks() returns.
Answers(ev) ==
    [a : BOOLEAN,
     b : IF ev.type \in {"MOUSEBUTTONDOWN", "MOUSEBUTTONUP", "FINGERDOWN",
                         "FINGERMOTION", "FINGERUP", "GESTURE"}
         THEN BOOLEAN ELSE {FALSE},
     c : IF ev.type \in {"FINGERDOWN", "FINGERUP"} THEN BOOLEAN ELSE {FALSE},
     now : IF ev.type = "FINGERDOWN" THEN TickValues ELSE {<<0, 0>>}]

\* TapClicks as it would be with >= for >.
TapClicksAtLeast(now, last) ==
    IF Gt32(Sub32(now, last), TapWindow - 1) THEN 1 ELSE 2

\* The click count of the touch-down fallback.
TapClicks(now, last) == IF Gt32(Sub32(now, last), TapWindow) THEN 1 ELSE 2

\* The outcome of one panel's turn: [handled, calls, zone, finger, tap].
Outcome(h, cs, z, f, t) ==
    [handled |-> h, calls |-> cs, zone |-> z, finger |-> f, tap |-> t]

OnMouseMotion(ev, i, p, r) ==
    Outcome(r.a, <<Call(i, p, IF ev.arg = 1 THEN "Drag" ELSE "Hover", <<>>)>>,
            zoneFingerId, panelFingerId, lastTap)

OnMouseButtonDown(ev, i, p, r) ==
    IF ev.arg = 1
    THEN IF r.a
         THEN Outcome(TRUE, <<Call(i, p, "ZoneMouseDown", <<>>)>>,
                      zoneFingerId, panelFingerId, lastTap)
         ELSE Outcome(r.b, <<Call(i, p, "ZoneMouseDown", <<>>),
                             Call(i, p, "Click", <<ev.clicks>>)>>,
                      zoneFingerId, panelFingerId, lastTap)
    ELSE IF ev.arg = 3
    THEN Outcome(r.a, <<Call(i, p, "RClick", <<>>)>>,
                 zoneFingerId, panelFingerId, lastTap)
    ELSE Outcome(FALSE, <<>>, zoneFingerId, panelFingerId, lastTap)

OnMouseButtonUp(ev, i, p, r) ==
    IF r.a
    THEN Outcome(TRUE, <<Call(i, p, "ZoneMouseUp", <<>>)>>,
                 zoneFingerId, panelFingerId, lastTap)
    ELSE Outcome(r.b, <<Call(i, p, "ZoneMouseUp", <<>>),
                        Call(i, p, "Release", <<>>)>>,
                 zoneFingerId, panelFingerId, lastTap)

OnMouseWheel(ev, i, p, r) ==
    Outcome(r.a, <<Call(i, p, "Scroll", <<>>)>>,
            zoneFingerId, panelFingerId, lastTap)

\* Touch-down: zones, then Hover and FingerDown, then the fallback Click.
OnFingerDown(ev, i, p, r) ==
    IF r.a
    THEN Outcome(TRUE, <<Call(i, p, "ZoneMouseDown", <<>>)>>,
                 ev.arg, panelFingerId, lastTap)
    ELSE IF r.b
    THEN Outcome(TRUE, <<Call(i, p, "ZoneMouseDown", <<>>),
                         Call(i, p, "Hover", <<>>),
                         Call(i, p, "FingerDown", <<ev.arg>>)>>,
                 zoneFingerId, panelFingerId, lastTap)
    ELSE Outcome(r.c,
                 <<Call(i, p, "ZoneMouseDown", <<>>),
                   Call(i, p, "Hover", <<>>),
                   Call(i, p, "FingerDown", <<ev.arg>>),
                   [Call(i, p, "Click", <<TapClicks(r.now, lastTap)>>)
                        EXCEPT !.ticks = <<r.now, lastTap>>]>>,
                 zoneFingerId,
                 IF r.c THEN ev.arg ELSE panelFingerId,
                 r.now)

\* Touch-motion: FingerMove, then Drag for the drag-owning finger.
OnFingerMotion(ev, i, p, r) ==
    IF r.a \/ panelFingerId # ev.arg
    THEN Outcome(r.a, <<Call(i, p, "FingerMove", <<ev.arg>>)>>,
                 zoneFingerId, panelFingerId, lastTap)
    ELSE Outcome(r.b, <<Call(i, p, "FingerMove", <<ev.arg>>),
                        Call(i, p, "Drag", <<>>)>>,
                 zoneFingerId, panelFingerId, lastTap)

\* Touch-up: ZoneMouseUp for the zone-owning finger, then FingerUp, then Release
\* for the drag-owning finger.
OnFingerUp(ev, i, p, r) ==
    LET zoned == zoneFingerId = ev.arg
        h1 == zoned /\ r.a
        c1 == IF zoned THEN <<Call(i, p, "ZoneMouseUp", <<>>)>> ELSE <<>>
        z1 == IF zoned THEN NoFinger ELSE zoneFingerId
        h2 == h1 \/ r.b
        c2 == IF h1 THEN c1 ELSE Append(c1, Call(i, p, "FingerUp", <<ev.arg>>))
        owned == ~h2 /\ panelFingerId = ev.arg
        h3 == IF owned THEN r.c ELSE h2
        c3 == IF owned THEN Append(c2, Call(i, p, "Release", <<>>)) ELSE c2
        f3 == IF owned THEN NoFinger ELSE panelFingerId
    IN  Outcome(h3, c3, z1, f3, lastTap)

OnKeyDown(ev, i, p, r) ==
    Outcome(r.a, <<Call(i, p, "KeyDown", <<1 - ev.arg>>)>>,
            zoneFingerId, panelFingerId, lastTap)

OnCommand(ev, i, p, r) ==
    IF ev.arg = 1
    THEN Outcome(r.a, <<Call(i, p, "KeyDown", <<1>>)>>,
                 zoneFingerId, panelFingerId, lastTap)
    ELSE Outcome(FALSE, <<>>, zoneFingerId, panelFingerId, lastTap)

\* A gesture the panel declines is injected as a command and offered as KeyDown.
OnGesture(ev, i, p, r) ==
    IF r.a
    THEN Outcome(TRUE, <<Call(i, p, "Gesture", <<ev.arg>>)>>,
                 zoneFingerId, panelFingerId, lastTap)
    ELSE Outcome(r.b, <<Call(i, p, "Gesture", <<ev.arg>>),
                        Call(0, Null, "InjectOnce", <<ev.arg>>),
                        Call(i, p, "KeyDown", <<1>>)>>,
                 zoneFingerId, panelFingerId, lastTap)

\* The body of the walk's loop for the panel p at index i.
Dispatch(ev, i, p, r) ==
    CASE ev.type = "MOUSEMOTION" -> OnMouseMotion(ev, i, p, r)
      [] ev.type = "MOUSEBUTTONDOWN" -> OnMouseButtonDown(ev, i, p, r)
      [] ev.type = "MOUSEBUTTONUP" -> OnMouseButtonUp(ev, i, p, r)
      [] ev.type = "MOUSEWHEEL" -> OnMouseWheel(ev, i, p, r)
      [] ev.type = "FINGERDOWN" -> OnFingerDown(ev, i, p, r)
      [] ev.type = "FINGERMOTION" -> OnFingerMotion(ev, i, p, r)
      [] ev.type = "FINGERUP" -> OnFingerUp(ev, i, p, r)
      [] ev.type = "KEYDOWN" -> OnKeyDown(ev, i, p, r)
      [] ev.type = "COMMAND" -> OnCommand(ev, i, p, r)
      [] ev.type = "GESTURE" -> OnGesture(ev, i, p, r)
      [] OTHER -> Outcome(FALSE, <<>>, zoneFingerId, panelFingerId, lastTap)

\* The requests a panel may issue from inside a callback: Push, Pop and
\* PopThrough of a panel, and Quit. `at` is the position, among the calls of
\* the panel's turn, of the callback that issues the request.
RequestKinds == {"Push", "Pop", "PopThrough"}
Requests(kinds, m) ==
    [kind : kinds \ {"Quit"}, panel : Panels, at : 1..m]
        \cup [kind : kinds \cap {"Quit"}, panel : {Null}, at : 1..m]
\* The sequences of at most n requests in the order they are issued, over a
\* turn of m calls.
RequestSeqs(kinds, n, m) ==
    {reqs \in UNION {[1..k -> Requests(kinds, m)] : k \in 0..n} :
        \A j \in 1..Len(reqs) : \A k \in (j + 1)..Len(reqs) :
            reqs[j].at <= reqs[k].at}

RECURSIVE Requested(_)
Requested(vs) ==
    IF vs = <<>> THEN 0 ELSE Len(Head(vs).reqs) + Requested(Tail(vs))

Request(q, i, req) ==
    CASE req.kind = "Push" -> Push(q, i, req.panel)
      [] req.kind = "Pop" -> Pop(q, req.panel)
      [] req.kind = "PopThrough" -> PopThrough(q, req.panel)
      [] req.kind = "Quit" -> [q EXCEPT !.isDone = TRUE]

RECURSIVE Issue(_, _, _)
Issue(q, i, reqs) ==
    IF reqs = <<>> THEN q ELSE Issue(Request(q, i, Head(reqs)), i, Tail(reqs))

\* The turn of the panel at index i: its calls cs are made in order from the
\* k-th on, and each callback issues its requests while it runs, so that the
\* SetUI of a Push is logged before the next callback.
RECURSIVE Turn(_, _, _, _, _)
Turn(q, i, cs, reqs, k) ==
    IF k > Len(cs) THEN q
    ELSE Turn(Issue([q EXCEPT !.calls = Append(@, cs[k])], i,
                    SelectSeq(reqs, LAMBDA x : x.at = k)),
              i, cs, reqs, k + 1)

\* The walk as it would be without the skip of panels queued for pop.
NeverAboutToPop(panel) == FALSE

\* "Panels that are about to be popped cannot handle any other events."
AboutToPop(panel) == Count(toPop, panel) # 0

\* The walk as it would be without the trap check.
NeverTrapped(panel) == FALSE

\* "do not let this event trickle further down the stack"
Trapped(panel) == TrapAllEvents(panel)

\* The loop as it would be if it ran to the bottom of the stack regardless of
\* `handled`.
WalkToBottom(h, n) == n # 0

\* The loop condition `it != stack.begin() && !handled`, n being the number of
\* entries below the iterator.
WalkOn(h, n) == n # 0 /\ ~h

\* One iteration of the walk, recorded: the index and the panel, whether the
\* panel was in the pending-pop queue when the walk reached it, the requests
\* it issued during its turn, and the value of `handled` after its turn.
Visit(i, p, reqs, h) ==
    [idx |-> i, panel |-> p, popping |-> \E k \in 1..Len(toPop) : toPop[k] = p,
     reqs |-> reqs, handled |-> h]

\* Entry of Handle: handled = false, it = stack.end().
HandleBegin(ev) ==
    /\ pc = "idle"
    /\ pc' = IF WalkOn(FALSE, Len(stack)) THEN "walk" ELSE "apply"
    /\ it' = Len(stack)
    /\ event' = ev
    /\ handled' = FALSE
    /\ calls' = <<>>
    /\ visited' = <<>>
    /\ UNCHANGED <<queues, isDone, touch>>

\* One iteration of `while(it != stack.begin() && !handled)`, the panel's
\* callbacks issuing requests of the given kinds, at most n of them in one
\* Handle call.
HandleVisit(kinds, n) ==
    /\ pc = "walk"
    /\ it' = it - 1
    /\ event' = event
    /\ LET p == stack[it] IN
        IF AboutToPop(p)
        THEN /\ pc' = IF WalkOn(handled, it') THEN "walk" ELSE "apply"
             /\ visited' = Append(visited, Visit(it, p, <<>>, handled))
             /\ UNCHANGED <<queues, isDone, touch, handled, calls>>
        ELSE \E r \in Answers(event) :
             LET d == Dispatch(event, it, p, r) IN
             \E reqs \in RequestSeqs(kinds, n - Requested(visited), Len(d.calls)) :
             LET q == Turn(Queues(calls), it, d.calls, reqs, 1)
             IN  /\ \A k \in 1..Len(reqs) : d.calls[reqs[k].at].idx = it
                 /\ Fits(q)
                 /\ handled' = d.handled
                 /\ zoneFingerId' = d.zone
                 /\ panelFingerId' = d.finger
                 /\ lastTap' = d.tap
                 /\ stack' = q.stack
                 /\ toPush' = q.toPush
                 /\ toPop' = q.toPop
                 /\ calls' = q.calls
                 /\ visited' = Append(visited, Visit(it, p, reqs, d.handled))
                 /\ pc' = IF Trapped(p) \/ ~WalkOn(d.handled, it')
                          THEN "apply" ELSE "walk"
                 /\ isDone' = q.isDone

\* After the walk: PushOrPop, then return handled.
HandleReturn ==
    /\ pc = "apply"
    /\ stack' = PushOrPop(stack, toPush, toPop)
    /\ toPush' = <<>>
    /\ toPop' = <<>>
    /\ pc' = "idle"
    /\ it' = 0
    /\ event' = NoEvent
    /\ calls' = <<>>
    /\ visited' = <<>>
    /\ handled' = FALSE
    /\ UNCHANGED <<isDone, touch>>

-----------------------------------------------------------------------------
\* The specifications.

\* The queues, the apply step and the draw pass, without event dispatch.
NextQueue ==
    \/ \E p \in Panels \cup {Null} : HostPush(p)
    \/ \E p \in Panels : HostPopThrough(p)
    \/ \E p \in Panels : HostPop(p)
    \/ StepAll
    \/ DrawAll
    \/ Reset
    \/ Quit

SpecQueue == Init /\ [][NextQueue]_vars

\* The controller under mouse, key, command and gesture events.
Next ==
    \/ \E p \in Panels : HostPush(p)
    \/ StepAll
    \/ \E ev \in MouseEvents \cup KeyEvents : HandleBegin(ev)
    \/ HandleVisit(RequestKinds, MaxReq)
    \/ HandleReturn

Spec == Init /\ [][Next]_vars

\* The controller under touch events, with a plain and a trapping panel.
TouchPanels == {1, 2}

NextTouch ==
    \/ \E p \in TouchPanels : HostPush(p)
    \/ \E p \in TouchPanels : HostPop(p)
    \/ StepAll
    \/ Reset
    \/ \E ev \in TouchEvents : HandleBegin(ev)
    \/ HandleVisit({}, 0)
    \/ HandleReturn

SpecTouch == Init /\ [][NextTouch]_vars

\* The controller under primary-button clicks whose handlers issue batches of
\* Push and Pop requests.
BatchEvents == {Event("MOUSEBUTTONDOWN", 1, 1)}

NextBatch ==
    \/ \E p \in Panels : HostPush(p)
    \/ StepAll
    \/ \E ev \in BatchEvents : HandleBegin(ev)
    \/ HandleVisit({"Push", "Pop"}, MaxBatch)
    \/ HandleReturn

SpecBatch == Init /\ [][NextBatch]_vars

\* The controller under key, command and gesture events whose handlers may
\* call Quit.
NextQuit ==
    \/ \E p \in Panels : HostPush(p)
    \/ StepAll
    \/ Quit
    \/ Reset
    \/ \E ev \in KeyEvents : HandleBegin(ev)
    \/ HandleVisit({"Quit"}, MaxReq)
    \/ HandleReturn

SpecQuit == Init /\ [][NextQuit]_vars

-----------------------------------------------------------------------------
\* Properties.

\* The callbacks by which Handle delivers an event to a panel.
InputCallbacks ==
    {"Drag", "Hover", "ZoneMouseDown", "Click", "RClick", "ZoneMouseUp",
     "Release", "Scroll", "FingerDown", "FingerMove", "FingerUp", "KeyDown",
     "Gesture"}

\* The stack indices whose panel received an input callback in this call.
Delivered == {calls[k].idx : k \in {n \in 1..Len(calls) : calls[n].cb \in InputCallbacks}}

InHandle == pc \in {"walk", "apply"}

\* C1: while a Handle call is inside its walk, every step (the entry and each
\* panel's turn, with whatever Push, Pop or PopThrough its callbacks issue)
\* leaves the stack as it was; the stack changes only in the step that leaves
\* the call, the PushOrPop after the walk.
C1_StackFrozenDuringWalk == [][pc' # "idle" => stack' = stack]_vars

\* C1 witness: the walk is over, not yet applied, a panel other than the top one
\* has issued a PopThrough from its callback, and the request sits in toPop.
C1_Witness ==
    /\ pc = "apply"
    /\ Len(stack) >= 2
    /\ toPop # <<>>
    /\ \E k \in 2..Len(visited) :
        /\ visited[k].reqs # <<>>
        /\ visited[k].reqs[1].kind = "PopThrough"

\* C2: a panel that is in the pending-pop queue when the walk reaches it
\* receives no input callback in that Handle call.
C2_PoppingPanelGetsNothing ==
    InHandle => \A k \in 1..Len(visited) :
        visited[k].popping => visited[k].idx \notin Delivered

\* C2 witness: a higher panel queued a lower one for pop from its callback, the
\* walk reached that lower panel and passed it, and a panel below received the
\* event.
C2_Witness ==
    /\ pc = "apply"
    /\ \E j, k \in 1..Len(visited) :
        /\ j < k
        /\ visited[j].reqs # <<>>
        /\ visited[j].reqs[1].kind = "Pop"
        /\ visited[j].reqs[1].panel = visited[k].panel
        /\ visited[k].popping
        /\ \E i \in Delivered : i < visited[k].idx

\* C3 as claimed: no panel below a panel with TrapAllEvents() receives a
\* callback, whatever the pending-pop queue holds.
C3_Claim ==
    InHandle => \A i \in Delivered :
        \A j \in (i + 1)..Len(stack) : ~TrapAllEvents(stack[j])

\* C3 amended: no panel below a trapping panel that the walk reached while it
\* was not queued for pop receives a callback.
C3_TrapStopsWalk ==
    InHandle => \A k \in 1..Len(visited) :
        (TrapAllEvents(visited[k].panel) /\ ~visited[k].popping)
            => \A i \in Delivered : i >= visited[k].idx

\* C3 witness: a trapping panel above the bottom of the stack had its turn,
\* declined the event, and the walk ended without visiting the panel below.
C3_Witness ==
    /\ pc = "apply"
    /\ ~handled
    /\ \E k \in 1..Len(visited) :
        /\ TrapAllEvents(visited[k].panel)
        /\ ~visited[k].popping
        /\ visited[k].idx > 1
        /\ visited[k].idx \in Delivered
        /\ k = Len(visited)

\* The index of the topmost occurrence of p in s.
Topmost(s, p) ==
    CHOOSE i \in 1..Len(s) : s[i] = p /\ \A j \in (i + 1)..Len(s) : s[j] # p

\* C4 as claimed: with nothing else pending, PopThrough(p) for a panel p of
\* the stack, followed by the apply step, leaves exactly the entries below the
\* topmost occurrence of p, in place and in order.
C4_Claim ==
    [][\A p \in Panels :
        (toPush = <<>> /\ toPop = <<>> /\ p \in Range(stack) /\ HostPopThrough(p))
            => PushOrPop(stack', toPush', toPop')
                   = SubSeq(stack, 1, Topmost(stack, p) - 1)]_vars

\* C5 as claimed: with nothing else pending, PopThrough(p) for a panel p that
\* is not in the stack, followed by the apply step, leaves the stack as it was.
C5_Claim ==
    [][\A p \in Panels :
        (toPush = <<>> /\ toPop = <<>> /\ p \notin Range(stack) /\ HostPopThrough(p))
            => PushOrPop(stack', toPush', toPop') = stack]_vars

\* C6 as claimed: while a push is pending, Top() is the panel pushed last and
\* IsTop of that panel is false.
C6_Claim ==
    toPush # <<>> => (Top = toPush[Len(toPush)] /\ ~IsTop(toPush[Len(toPush)]))

\* C6 amended: while a push is pending, Top() is the panel pushed last, and
\* IsTop of that panel is false unless the same panel is already the top entry
\* of the applied stack.
C6_TopButNotIsTop ==
    toPush # <<>> =>
        /\ Top = toPush[Len(toPush)]
        /\ (stack = <<>> \/ stack[Len(stack)] # toPush[Len(toPush)])
               => ~IsTop(toPush[Len(toPush)])

\* C6 witness: a push is pending on a non-empty stack whose top is another
\* panel.
C6_Witness ==
    /\ toPush # <<>>
    /\ stack # <<>>
    /\ stack[Len(stack)] # toPush[Len(toPush)]
    /\ Top # stack[Len(stack)]

\* C7 as claimed: Reset leaves the controller empty, not done, with both queues
\* empty and with no zone-owning and no drag-owning finger.
C7_Claim ==
    [][Reset =>
        /\ IsEmpty'
        /\ ~IsDone'
        /\ toPush' = <<>>
        /\ toPop' = <<>>
        /\ zoneFingerId' = NoFinger
        /\ panelFingerId' = NoFinger]_vars

\* The Draw and the ClearZones calls of the log, in order.
DrawCalls == SelectSeq(calls, LAMBDA c : c.cb = "Draw")
ClearCalls == SelectSeq(calls, LAMBDA c : c.cb = "ClearZones")

\* C8: after DrawAll, the log is ClearZones on every entry of the stack followed
\* by Draw, once each and bottom to top, on the entries from the highest
\* full-screen panel (from the bottom when there is none) to the top; no entry
\* strictly below the highest full-screen panel is drawn.
C8_DrawAboveFullScreen ==
    ClearCalls # <<>> =>
        /\ calls = ClearCalls \o DrawCalls
        /\ Len(ClearCalls) = Len(stack)
        /\ \A i \in 1..Len(stack) :
            ClearCalls[i].idx = i /\ ClearCalls[i].panel = stack[i]
        /\ DrawCalls # <<>>
        /\ \A k \in 1..Len(DrawCalls) :
            /\ DrawCalls[k].idx = DrawCalls[1].idx + k - 1
            /\ DrawCalls[k].panel = stack[DrawCalls[k].idx]
            /\ \A j \in (DrawCalls[k].idx + 1)..Len(stack) :
                ~IsFullScreen(stack[j])
        /\ DrawCalls[Len(DrawCalls)].idx = Len(stack)
        /\ DrawCalls[1].idx = 1 \/ IsFullScreen(stack[DrawCalls[1].idx])

\* C8 witness: DrawAll ran on a stack with two full-screen panels, the higher of
\* them below the top, and drew the two entries from it upward.
C8_Witness ==
    /\ ClearCalls # <<>>
    /\ Len(stack) = 3
    /\ IsFullScreen(stack[1])
    /\ IsFullScreen(stack[2])
    /\ Len(DrawCalls) = 2

\* The fallback Clicks of the log, which carry the ticks read for them.
TapCalls == SelectSeq(calls, LAMBDA c : c.cb = "Click" /\ c.ticks # <<>>)
\* The uint32_t time from the recorded last tap to the tick read for the Click.
TapGap(c) == Sub32(c.ticks[1], c.ticks[2])

\* C9 as claimed: a fallback Click less than 500 ms after the previous tap gets
\* click-count 2, and one 500 ms or more after it gets click-count 1. Only
\* the first fallback Click of a Handle call is looked at, and only when it
\* follows a tap of an earlier call (lastTap holds a tick read for that tap, not
\* its initial value).
C9_Claim ==
    \A k \in {n \in 1..Len(TapCalls) :
                 n = 1 /\ TapCalls[n].ticks[2] \in TickValues} :
        LET gap == TapGap(TapCalls[k]) IN
        /\ (gap[1] = 0 /\ gap[2] < TapWindow) => TapCalls[k].arg = <<2>>
        /\ (gap[1] > 0 \/ gap[2] >= TapWindow) => TapCalls[k].arg = <<1>>

\* C9 amended: a fallback Click at most 500 ms after the recorded last tap
\* (uint32_t difference, exactly 500 included) gets click-count 2, and one more
\* than 500 ms after it gets click-count 1.
C9_DoubleTapWindow ==
    \A k \in 1..Len(TapCalls) :
        LET gap == TapGap(TapCalls[k]) IN
        /\ (gap[1] = 0 /\ gap[2] <= TapWindow) => TapCalls[k].arg = <<2>>
        /\ (gap[1] > 0 \/ gap[2] > TapWindow) => TapCalls[k].arg = <<1>>

\* C9 witness: a fallback Click exactly 500 ms after the last tap, the tick
\* counter having wrapped in between, got click-count 2.
C9_Witness ==
    \E k \in 1..Len(TapCalls) :
        /\ TapGap(TapCalls[k]) = <<0, TapWindow>>
        /\ TapCalls[k].ticks[2][1] > TapCalls[k].ticks[1][1]
        /\ TapCalls[k].arg = <<2>>

\* A pop queue with the repeated requests removed.
RECURSIVE Once(_)
Once(pops) ==
    IF pops = <<>> THEN <<>>
    ELSE <<Head(pops)>> \o Once(SelectSeq(Tail(pops), LAMBDA x : x # Head(pops)))

\* C10 as claimed: the apply step leaves the stack it would leave had every
\* panel been requested for removal once (stated for an apply step with no
\* pending push, so that the stack is the one the requests were made on).
C10_Claim ==
    [][(StepAll /\ toPush = <<>>)
        => stack' = PushOrPop(stack, toPush, Once(toPop))]_vars

\* C10 amended: the same, provided every panel requested more than once occurs
\* at most once among the stack entries and the pending pushes.
C10_RepeatedPopIsOnePop ==
    [][(StepAll /\ \A p \in Panels :
            Count(toPop, p) >= 2 => Count(stack \o toPush, p) <= 1)
        => stack' = PushOrPop(stack, toPush, Once(toPop))]_vars

\* C10 witness: the stack holds a panel once, above and below other panels,
\* and the pop queue holds it twice.
C10_Witness ==
    \E p \in Panels :
        /\ Count(toPop, p) = 2
        /\ Len(stack) = 3
        /\ stack[2] = p
        /\ Count(stack, p) = 1

\* C11 as claimed: a pop request for a panel that is not in the stack changes
\* nothing: the apply step leaves the stack it would leave without the request,
\* whatever the pending-push queue holds.
C11_Claim ==
    [][StepAll => \A k \in 1..Len(toPop) :
        toPop[k] \notin Range(stack)
            => stack' = PushOrPop(stack, toPush, RemoveAt(toPop, k))]_vars

\* C11 amended: the same, provided the panel is not in the pending-push queue
\* either when the apply step runs.
C11_AbsentPopIsNoOp ==
    [][StepAll => \A k \in 1..Len(toPop) :
        (toPop[k] \notin Range(stack) /\ toPop[k] \notin Range(toPush))
            => stack' = PushOrPop(stack, toPush, RemoveAt(toPop, k))]_vars

\* C11 witness: the pop queue names a panel that is neither in the stack nor
\* pending, next to a request that does match, with another push pending.
C11_Witness ==
    /\ stack # <<>>
    /\ toPush # <<>>
    /\ Len(toPop) = 2
    /\ toPop[1] \notin Range(stack) \cup Range(toPush)
    /\ toPop[2] \in Range(stack)

\* C12 as claimed: Push of an empty handle does not fault, and the apply step
\* that follows leaves the stack it would have left without that push, with no
\* empty entry in it.
C12_Claim ==
    [][HostPush(Null) =>
        /\ pc' # "fault"
        /\ Null \notin Range(PushOrPop(stack', toPush', toPop'))
        /\ PushOrPop(stack', toPush', toPop')
               = PushOrPop(stack, toPush, toPop)]_vars

\* C13 as claimed: when the walk of a Handle call for a touch-up of finger f is
\* over, f is neither the zone-owning nor the drag-owning finger, whichever
\* callback consumed the event (stated for a call on a non-empty stack).
C13_Claim ==
    (pc = "apply" /\ event.type = "FINGERUP" /\ stack # <<>>) =>
        (zoneFingerId # event.arg /\ panelFingerId # event.arg)

\* The requests issued by the callbacks of the Handle call in progress, and the
\* panels they pushed, in request order.
RECURSIVE AllRequests(_)
AllRequests(vs) ==
    IF vs = <<>> THEN <<>> ELSE Head(vs).reqs \o AllRequests(Tail(vs))
Pushed ==
    LET sel == SelectSeq(AllRequests(visited), LAMBDA r : r.kind = "Push")
    IN  [k \in 1..Len(sel) |-> sel[k].panel]
\* The panels SetUI was called on during the call in progress, in order.
Wired ==
    LET sel == SelectSeq(calls, LAMBDA c : c.cb = "SetUI")
    IN  [k \in 1..Len(sel) |-> sel[k].panel]
\* s ends with t.
EndsWith(s, t) ==
    Len(t) <= Len(s) /\ SubSeq(s, Len(s) - Len(t) + 1, Len(s)) = t
\* Before the apply step of a Handle call: stack [A, B], and B, from its Click
\* handler, has requested Pop(B) and then Push(c); nothing else is pending.
PopSelfPushOther(c) ==
    /\ Len(stack) = 2
    /\ Len(visited) = 1
    /\ visited[1].idx = 2
    /\ \E a \in 1..Len(calls) :
        /\ calls[a].cb = "Click" /\ calls[a].idx = 2
        /\ visited[1].reqs = <<[kind |-> "Pop", panel |-> stack[2], at |-> a],
                               [kind |-> "Push", panel |-> c, at |-> a]>>
    /\ toPush = <<c>>
    /\ toPop = <<stack[2]>>

\* C14 as claimed: when a Handle call returns, SetUI has been called on every
\* panel its callbacks pushed, these panels are pending and not yet in the stack
\* by that push, and the apply step leaves them as the top entries of the stack,
\* in request order, with both queues empty; stack [A, B] with Pop(B) and
\* Push(C) from B's Click becomes [A, C].
C14_Claim ==
    [][HandleReturn =>
        /\ Wired = Pushed
        /\ EndsWith(toPush, Pushed)
        /\ EndsWith(stack', Pushed)
        /\ toPush' = <<>> /\ toPop' = <<>>
        /\ \A c \in Panels : PopSelfPushOther(c) => stack' = <<stack[1], c>>]_vars

\* C14 amended: the same, the pushed panels being the top entries after the
\* apply step provided none of them is named in the pending-pop queue.
C14_PushedEnterOnTop ==
    [][HandleReturn =>
        /\ Wired = Pushed
        /\ EndsWith(toPush, Pushed)
        /\ (\A k \in 1..Len(Pushed) : Count(toPop, Pushed[k]) = 0)
               => EndsWith(stack', Pushed)
        /\ toPush' = <<>> /\ toPop' = <<>>
        /\ \A c \in Panels : PopSelfPushOther(c) => stack' = <<stack[1], c>>]_vars

\* C14 witness: the walk of the example is over: stack [A, B] of two panels,
\* B has requested Pop(B) and Push(C) for a third panel C from its Click.
C14_Witness ==
    /\ pc = "apply"
    /\ \E c \in Panels :
        /\ PopSelfPushOther(c)
        /\ Cardinality({stack[1], stack[2], c}) = 3

\* C15: in a Handle call, a panel whose turn ends with the event handled is the
\* last panel the walk visits, and no panel below it receives a callback; the
\* value Handle returns is true exactly when some panel's turn ended with the
\* event handled, so it is false for an empty stack and when every panel
\* declined.
C15_OnePanelConsumes ==
    InHandle =>
        /\ \A k \in 1..Len(visited) : visited[k].handled =>
            /\ k = Len(visited)
            /\ \A i \in Delivered : i >= visited[k].idx
        /\ pc = "apply" =>
            (handled <=> \E k \in 1..Len(visited) : visited[k].handled)
        /\ (pc = "apply" /\ stack = <<>>) => ~handled

\* C15 witness: the top panel declined the event, the panel below it took it,
\* and the walk ended above the bottom of the stack with Handle returning true.
C15_Witness ==
    /\ pc = "apply"
    /\ handled
    /\ Len(visited) = 2
    /\ ~visited[1].handled
    /\ visited[1].idx \in Delivered
    /\ visited[2].handled
    /\ visited[2].idx = 2

\* C16 as claimed: an apply step with nothing pending but one Pop(p), for a
\* panel p of the stack, erases the topmost occurrence of p and nothing else.
C16_Claim ==
    [][(StepAll /\ toPush = <<>> /\ Len(toPop) = 1 /\ toPop[1] \in Range(stack))
        => stack' = RemoveAt(stack, Topmost(stack, toPop[1]))]_vars

\* The Command::InjectOnce calls of the log.
Injections == SelectSeq(calls, LAMBDA c : c.cb = "InjectOnce")
\* The log without the SetUI calls of the pushes made inside the callbacks.
Deliveries == SelectSeq(calls, LAMBDA c : c.cb # "SetUI")

\* C17 as claimed: in a Handle call for a gesture, every InjectOnce follows a
\* Gesture callback and is followed by KeyDown on the same panel with no other
\* callback in between, and
\* the command is injected at most once in the call, however many panels
\* the walk visits.
C17_Claim ==
    (InHandle /\ event.type = "GESTURE") =>
        /\ \A k \in 1..Len(Deliveries) : Deliveries[k].cb = "InjectOnce" =>
            /\ k > 1 /\ k < Len(Deliveries)
            /\ Deliveries[k - 1].cb = "Gesture"
            /\ Deliveries[k + 1].cb = "KeyDown"
            /\ Deliveries[k + 1].idx = Deliveries[k - 1].idx
        /\ Len(Injections) <= 1

\* C18 as claimed: when the first fallback Click of a touch-down comes more than
\* 500 ms after the previous tap, every fallback Click of that Handle call has
\* click-count 1. Stated for a walk that reads the same tick for every panel,
\* after a tap of an earlier call.
C18_Claim ==
    (InHandle /\ TapCalls # <<>>
        /\ TapCalls[1].ticks[2] \in TickValues
        /\ Gt32(TapGap(TapCalls[1]), TapWindow)
        /\ \A k \in 1..Len(TapCalls) : TapCalls[k].ticks[1] = TapCalls[1].ticks[1])
    => \A k \in 1..Len(TapCalls) : TapCalls[k].arg = <<1>>

\* The visits of the walk that ran the loop body (the panel was not skipped).
Dispatched == {k \in 1..Len(visited) : ~visited[k].popping}
\* The callback cb was made on the stack entry i in this call.
Offered(cb, i) ==
    \E n \in 1..Len(calls) : calls[n].cb = cb /\ calls[n].idx = i

\* C19 as claimed: in a Handle call for a touch-up, when the finger is the
\* zone-owning finger at the start of the call (a ZoneMouseUp is in the log),
\* every panel the walk dispatches to is offered ZoneMouseUp; and when it is the
\* drag-owning finger (a Release is in the log), every dispatched panel that
\* declined what came before is offered Release.
C19_Claim ==
    (pc = "apply" /\ event.type = "FINGERUP") =>
        /\ (\E i \in 1..Len(stack) : Offered("ZoneMouseUp", i)) =>
            \A k \in Dispatched : Offered("ZoneMouseUp", visited[k].idx)
        /\ (\E i \in 1..Len(stack) : Offered("Release", i)) =>
            \A k \in Dispatched :
                ~visited[k].handled => Offered("Release", visited[k].idx)

\* C20: the apply step applies the pending pushes before the pending pops, in
\* whatever order the requests were made: a panel that is not in the stack and
\* is named in the pop queue at least as often as in the push queue is not in
\* the stack after the apply step, although Top() returned it before when it
\* was pushed last.
C20_PushesBeforePops ==
    [][StepAll => \A p \in Panels :
        (p \notin Range(stack) /\ Count(toPush, p) >= 1
            /\ Count(toPop, p) >= Count(toPush, p))
        => /\ p \notin Range(stack')
           /\ (toPush[Len(toPush)] = p => Top = p)]_vars

\* C20 witness: on a non-empty stack without the panel, Pop(p) was requested
\* first and Push(p) after it (the log holds the SetUI call of that Push), and
\* Top() is p.
C20_Witness ==
    \E p \in Panels :
        /\ stack # <<>>
        /\ p \notin Range(stack)
        /\ toPop = <<p>>
        /\ toPush = <<p>>
        /\ calls = <<Call(0, p, "SetUI", <<>>)>>
        /\ Top = p

====
